---- MODULE Spec2Model ----
(***************************************************************************)
(* maskmaker.mask.Mask: a binary raster mask built from polygon geometry.  *)
(*                                                                         *)
(* Coordinates are integers in units of half a grid spacing, so that the   *)
(* cell-centre correction (half of a difference of neighbours) is exact.   *)
(* Arrays are sequences of rows; array indices are numpy's (from 0), read  *)
(* through At.  make() is modelled step by step: the call and the build of *)
(* the tree, each iteration of the loops over features and parts, the call *)
(* of _gridify, the call of _update_mask, and the final clamp.             *)
(***************************************************************************)
EXTENDS Integers, Sequences, FiniteSets, TLC

VARIABLES x, y, dx, centered,
          mask, tree,
          pc, geomType, cur, filled, nrings,
          err, calls

vars == <<x, y, dx, centered, mask, tree, pc, geomType, cur, filled, nrings,
          err, calls>>

-----------------------------------------------------------------------------
(* Bounds of the model. *)

\* Largest number of rows, and of columns, of a grid array.
MaxDim == 2
\* Largest number of rings processed by one make().
MaxRings == 2
\* Largest number of make() calls on one instance.
MaxCalls == 2

\* dx=np.inf, the default: a value no finite dx of the model equals.
Inf == 999

-----------------------------------------------------------------------------
(* Values. *)

None == <<>>

NoErr == [type |-> "none", what |-> ""]

Exc(t, w) == [type |-> t, what |-> w]

TreeExistsError == Exc("ValueError", "Tree already exists!")

ZipLongerError == Exc("ValueError", "zip() argument 2 is longer than argument 1")

ZipShorterError == Exc("ValueError", "zip() argument 2 is shorter than argument 1")

IndexOutOfBounds == Exc("IndexError", "index -2 is out of bounds")

EmptyReductionError ==
    Exc("ValueError", "zero-size array to reduction operation minimum which has no identity")

-----------------------------------------------------------------------------
(* Arrays. *)

Rows(a) == Len(a)

Cols(a) == IF Len(a) = 0 THEN 0 ELSE Len(a[1])

Shape(a) == <<Rows(a), Cols(a)>>

Size(a) == Rows(a) * Cols(a)

At(a, r, c) == a[r + 1][c + 1]

CellsOf(shape) == (0 .. shape[1] - 1) \X (0 .. shape[2] - 1)

\* np.zeros(shape)
Zeros(shape) == [r \in 1 .. shape[1] |-> [c \in 1 .. shape[2] |-> 0]]

\* a.ravel(): the elements in row-major order.
Ravel(a) == [i \in 1 .. Size(a) |-> At(a, (i - 1) \div Cols(a), (i - 1) % Cols(a))]

\* np.unravel_index(ind, shape): the (row, col) of a flat index.
Unravel(ind, shape) == <<ind \div shape[2], ind % shape[2]>>

-----------------------------------------------------------------------------
(* Mask._make_tree *)

\* CenterX without the extrapolation of the last column.
CenterXNoEdge(tx) ==
    [r \in 1 .. Rows(tx) |-> [c \in 1 .. Cols(tx) |->
        IF c < Cols(tx)
        THEN tx[r][c] + (tx[r][c + 1] - tx[r][c]) \div 2
        ELSE tx[r][c]]]

\* x[:, :-1] = tx[:, :-1] + (tx[:, 1:] - tx[:, :-1]) / 2.
\* x[:, -1] += (tx[:, -1] - tx[:, -2]) / 2.
CenterX(tx) ==
    [r \in 1 .. Rows(tx) |-> [c \in 1 .. Cols(tx) |->
        IF c < Cols(tx)
        THEN tx[r][c] + (tx[r][c + 1] - tx[r][c]) \div 2
        ELSE tx[r][c] + (tx[r][c] - tx[r][c - 1]) \div 2]]

\* y[:-1, :] = ty[:-1, :] + (ty[1:, :] - ty[:-1, :]) / 2.
\* y[-1, :] += (ty[-1, :] - ty[-2, :]) / 2.
CenterY(ty) ==
    [r \in 1 .. Rows(ty) |-> [c \in 1 .. Cols(ty) |->
        IF r < Rows(ty)
        THEN ty[r][c] + (ty[r + 1][c] - ty[r][c]) \div 2
        ELSE ty[r][c] + (ty[r][c] - ty[r - 1][c]) \div 2]]

\* list(zip(tx.ravel(), ty.ravel(), strict=True))
ZipStrict(a, b) ==
    IF Len(b) > Len(a) THEN [err |-> ZipLongerError, points |-> None]
    ELSE IF Len(b) < Len(a) THEN [err |-> ZipShorterError, points |-> None]
    ELSE [err |-> NoErr, points |-> [i \in 1 .. Len(a) |-> <<a[i], b[i]>>]]

\* The points the KDTree is built over, or the exception _make_tree raises:
\* tx[:, -2] (ty[-2, :]) does not exist in an array of one column (row).
MakeTree(gx, gy, cen) ==
    IF ~cen /\ Cols(gx) < 2 THEN [err |-> IndexOutOfBounds, points |-> None]
    ELSE IF ~cen /\ Rows(gy) < 2 THEN [err |-> IndexOutOfBounds, points |-> None]
    ELSE ZipStrict(Ravel(IF cen THEN gx ELSE CenterX(gx)),
                   Ravel(IF cen THEN gy ELSE CenterY(gy)))

-----------------------------------------------------------------------------
(* scipy.spatial.KDTree.query(points, k=1, distance_upper_bound=dx) *)

Dist2(p, q) == (p[1] - q[1]) * (p[1] - q[1]) + (p[2] - q[2]) * (p[2] - q[2])

\* A neighbour is returned only if its distance is below the upper bound.
Within(d2, maxd) == maxd = Inf \/ d2 < maxd * maxd

\* The flat indices query may return for p: a nearest point within maxd
\* (which of several equidistant ones is the tree's choice), or
\* len(tree.data) when there is none.
Nearest(points, maxd, p) ==
    LET n == Len(points)
        hits == {i \in 0 .. n - 1 :
                    /\ Within(Dist2(p, points[i + 1]), maxd)
                    /\ \A j \in 0 .. n - 1 :
                          Dist2(p, points[i + 1]) <= Dist2(p, points[j + 1])}
    IN  IF hits = {} THEN {n} ELSE hits

\* The index arrays query may return for the vertices of a ring: equal
\* vertices get equal indices.
Query(points, maxd, ring) ==
    LET D == {ring[i] : i \in 1 .. Len(ring)}
        near == [p \in D |-> Nearest(points, maxd, p)]
        U == UNION {near[p] : p \in D}
    IN  {[i \in 1 .. Len(ring) |-> f[ring[i]]] :
            f \in {g \in [D -> U] : \A p \in D : g[p] \in near[p]}}

-----------------------------------------------------------------------------
(* skimage.draw.polygon(r, c) *)

SetMin(S) == CHOOSE m \in S : \A k \in S : m <= k

SetMax(S) == CHOOSE m \in S : \A k \in S : m >= k

\* (x0 * y1 - x1 * y0) / (y1 - y0) > 0, the divisor not being 0.
QuotPos(num, den) == (num > 0 /\ den > 0) \/ (num < 0 /\ den < 0)

QuotNeg(num, den) == (num > 0 /\ den < 0) \/ (num < 0 /\ den > 0)

\* PointInPolygon by the parity of the crossings alone: vertices and edges
\* are not told apart from the outside.
PointInPolygonCrossing(coords, r, c) ==
    LET n == Len(coords)
        X0(i) == coords[i][2] - c
        Y0(i) == coords[i][1] - r
        X1(i) == IF i = 1 THEN X0(n) ELSE X0(i - 1)
        Y1(i) == IF i = 1 THEN Y0(n) ELSE Y0(i - 1)
        rcross == Cardinality({i \in 1 .. n :
                     /\ (Y0(i) > 0) # (Y1(i) > 0)
                     /\ QuotPos(X0(i) * Y1(i) - X1(i) * Y0(i), Y1(i) - Y0(i))})
    IN  IF rcross % 2 = 1 THEN 1 ELSE 0

\* point_in_polygon(cptr, rptr, c, r): 0 outside, 1 inside, 2 vertex, 3 edge.
PointInPolygon(coords, r, c) ==
    LET n == Len(coords)
        X0(i) == coords[i][2] - c
        Y0(i) == coords[i][1] - r
        X1(i) == IF i = 1 THEN X0(n) ELSE X0(i - 1)
        Y1(i) == IF i = 1 THEN Y0(n) ELSE Y0(i - 1)
        Num(i) == X0(i) * Y1(i) - X1(i) * Y0(i)
        Den(i) == Y1(i) - Y0(i)
        rcross == Cardinality({i \in 1 .. n :
                     /\ (Y0(i) > 0) # (Y1(i) > 0)
                     /\ QuotPos(Num(i), Den(i))})
        lcross == Cardinality({i \in 1 .. n :
                     /\ (Y0(i) < 0) # (Y1(i) < 0)
                     /\ QuotNeg(Num(i), Den(i))})
    IN  IF \E i \in 1 .. n : X0(i) = 0 /\ Y0(i) = 0 THEN 2
        ELSE IF (rcross % 2) # (lcross % 2) THEN 3
        ELSE IF rcross % 2 = 1 THEN 1
        ELSE 0

\* The cells of the bounding box of the vertices that point_in_polygon does
\* not find outside; r.min() of no vertices raises.
DrawPolygon(coords) ==
    IF coords = <<>> THEN [err |-> EmptyReductionError, cells |-> {}]
    ELSE LET rs == {coords[k][1] : k \in 1 .. Len(coords)}
             cs == {coords[k][2] : k \in 1 .. Len(coords)}
         IN  [err |-> NoErr,
              cells |-> {cell \in (SetMin(rs) .. SetMax(rs)) \X (SetMin(cs) .. SetMax(cs)) :
                            PointInPolygon(coords, cell[1], cell[2]) # 0}]

-----------------------------------------------------------------------------
(* Mask._gridify *)

\* inds with the indices >= len(self.tree.data) deleted, unravelled.
GridCoords(inds, n, shape) ==
    LET good == SelectSeq(inds, LAMBDA i : i < n)
    IN  [k \in 1 .. Len(good) |-> Unravel(good[k], shape)]

\* What _gridify may return for a ring (x, y as cells; coords), or raise.
Gridify(points, shape, maxd, ring) ==
    {LET coords == GridCoords(inds, Len(points), shape)
         drawn == DrawPolygon(coords)
     IN  [err |-> drawn.err, cells |-> drawn.cells, coords |-> coords] :
        inds \in Query(points, maxd, ring)}

-----------------------------------------------------------------------------
(* Mask._update_mask *)

\* x.shape of the one-dimensional array draw.polygon returns.
ArrayShape(cells) == <<Cardinality(cells)>>

\* not x.shape: a tuple is false only when it is empty.
NotShape(shape) == Len(shape) = 0

\* for pt in zip(*coords): self.mask[pt] += 1
MarkVertices(m, coords) ==
    [r \in 1 .. Rows(m) |-> [c \in 1 .. Cols(m) |->
        m[r][c] + Cardinality({k \in 1 .. Len(coords) : coords[k] = <<r - 1, c - 1>>})]]

\* MarkCells with the sum not stored.
MarkCellsNoStore(m, cells) == m

\* MarkCells on a mask allocated anew for each ring.
MarkCellsOverwrite(m, cells) ==
    [r \in 1 .. Rows(m) |-> [c \in 1 .. Cols(m) |->
        IF <<r - 1, c - 1>> \in cells THEN 1 ELSE 0]]

\* self.mask[x, y] += 1
MarkCells(m, cells) ==
    [r \in 1 .. Rows(m) |-> [c \in 1 .. Cols(m) |->
        IF <<r - 1, c - 1>> \in cells THEN m[r][c] + 1 ELSE m[r][c]]]

UpdateMask(m, cells, coords) ==
    IF NotShape(ArrayShape(cells)) THEN MarkVertices(m, coords)
    ELSE MarkCells(m, cells)

\* Finalize without the clamp.
FinalizeNoClamp(m) == m

\* self.mask[self.mask > 1] = 1
Finalize(m) ==
    [r \in 1 .. Rows(m) |-> [c \in 1 .. Cols(m) |->
        IF m[r][c] > 1 THEN 1 ELSE m[r][c]]]

-----------------------------------------------------------------------------
(* Inputs. *)

Shapes == (1 .. MaxDim) \X (1 .. MaxDim)

\* The x array of a regular grid: columns one spacing (two units) apart.
RegularX(shape) == [r \in 1 .. shape[1] |-> [c \in 1 .. shape[2] |-> 2 * (c - 1)]]

\* The y array of a regular grid: rows one spacing apart.
RegularY(shape) == [r \in 1 .. shape[1] |-> [c \in 1 .. shape[2] |-> 2 * (r - 1)]]

DxValues == {1, Inf}

\* Vertices of input rings, by their place in a cell of the grid: a corner,
\* the middle of an edge, the middle of the cell.
Verts == {0, 1} \X {0, 1}

\* polygon.exterior.xy of the rectangle with opposite corners a and b: a
\* closed ring, the first vertex repeated at the end.  It is a segment or a
\* single point when a and b share a coordinate.
Rect(a, b) == <<a, <<b[1], a[2]>>, b, <<a[1], b[2]>>, a>>

\* The rectangles between two vertices, from the lower left corner.
Rings ==
    UNION {{Rect(a, b) : b \in {v \in Verts : a[1] <= v[1] /\ a[2] <= v[2]}} :
              a \in Verts}

\* geom_type of a geometry that is neither a Polygon nor a MultiPolygon.
OtherKinds == {"Point", "LineString"}

NoRing == <<>>

NoFill == [cells |-> {}, coords |-> <<>>]

-----------------------------------------------------------------------------
(* Mask.make *)

\* TreeExists without the guard.
TreeExistsNever(t) == FALSE

\* if self.tree is not None: raise ValueError('Tree already exists!')
TreeExists(t) == t # None

\* raise NotImplementedError(f'Cannot process {geom.__qualname__} geometry.'):
\* the message is evaluated first, and __qualname__ is an attribute of
\* classes, not of a geometry object, so that the lookup raises.
UnsupportedGeometry(kind) == Exc("AttributeError", "__qualname__")

Init ==
    /\ x \in {RegularX(sh) : sh \in Shapes}
    /\ y \in {RegularY(sh) : sh \in Shapes}
    /\ dx \in DxValues
    /\ centered \in BOOLEAN
    /\ mask = None
    /\ tree = None
    /\ pc = "unbuilt"
    /\ geomType = "none"
    /\ cur = NoRing
    /\ filled = NoFill
    /\ nrings = 0
    /\ err = NoErr
    /\ calls = 0

\* A call of make(), up to the loop over the features.
MakeCall ==
    /\ pc \in {"unbuilt", "built", "failed"}
    /\ calls < MaxCalls
    /\ calls' = calls + 1
    /\ IF TreeExists(tree)
       THEN /\ err' = TreeExistsError
            /\ UNCHANGED <<mask, tree, pc, nrings>>
       ELSE LET made == MakeTree(x, y, centered)
            IN  IF made.err # NoErr
                THEN /\ err' = made.err
                     /\ UNCHANGED <<mask, tree, pc, nrings>>
                ELSE /\ tree' = made.points
                     /\ mask' = Zeros(Shape(x))
                     /\ pc' = "for"
                     /\ nrings' = 0
                     /\ err' = NoErr
    /\ UNCHANGED <<x, y, dx, centered, geomType, cur, filled>>

\* xx, yy, coords = self._gridify(polygon): returns, or raises out of
\* make(), which leaves the polygon in cur.
GridifyCall(polygon) ==
    \E res \in Gridify(tree, Shape(x), dx, polygon) :
        IF res.err # NoErr
        THEN /\ err' = res.err
             /\ pc' = "failed"
             /\ cur' = polygon
             /\ UNCHANGED filled
        ELSE /\ filled' = [cells |-> res.cells, coords |-> res.coords]
             /\ pc' = "update"
             /\ UNCHANGED <<cur, err>>

\* for feature in self._features: the next geometry is a Polygon.
IterPolygon ==
    /\ pc = "for"
    /\ nrings < MaxRings
    /\ geomType' = "Polygon"
    /\ \E ring \in Rings : GridifyCall(ring)
    /\ UNCHANGED <<x, y, dx, centered, mask, tree, nrings, calls>>

\* The next geometry is a MultiPolygon: its first part.
IterMultiPolygon ==
    /\ pc = "for"
    /\ nrings < MaxRings
    /\ geomType' = "MultiPolygon"
    /\ \E ring \in Rings : GridifyCall(ring)
    /\ UNCHANGED <<x, y, dx, centered, mask, tree, nrings, calls>>

\* for part in geom.geoms: a further part.
IterPart ==
    /\ pc = "parts"
    /\ nrings < MaxRings
    /\ \E ring \in Rings : GridifyCall(ring)
    /\ UNCHANGED <<x, y, dx, centered, mask, tree, geomType, nrings, calls>>

\* The parts of the MultiPolygon are exhausted.
EndParts ==
    /\ pc = "parts"
    /\ pc' = "for"
    /\ UNCHANGED <<x, y, dx, centered, mask, tree, geomType, cur, filled,
                   nrings, err, calls>>

\* The next geometry is of another kind: make() raises.
IterOther ==
    /\ pc = "for"
    /\ \E kind \in OtherKinds :
          /\ geomType' = kind
          /\ err' = UnsupportedGeometry(kind)
    /\ pc' = "failed"
    /\ UNCHANGED <<x, y, dx, centered, mask, tree, cur, filled, nrings, calls>>

\* self._update_mask(xx, yy, coords)
UpdateStep ==
    /\ pc = "update"
    /\ mask' = UpdateMask(mask, filled.cells, filled.coords)
    /\ filled' = NoFill
    /\ nrings' = nrings + 1
    /\ pc' = IF geomType = "MultiPolygon" THEN "parts" ELSE "for"
    /\ UNCHANGED <<x, y, dx, centered, tree, geomType, cur, err, calls>>

\* The features are exhausted: the clamp, and make() returns.
EndFor ==
    /\ pc = "for"
    /\ mask' = Finalize(mask)
    /\ pc' = "built"
    /\ UNCHANGED <<x, y, dx, centered, tree, geomType, cur, filled,
                   nrings, err, calls>>

Next ==
    \/ MakeCall
    \/ IterPolygon
    \/ IterMultiPolygon
    \/ IterPart
    \/ EndParts
    \/ IterOther
    \/ UpdateStep
    \/ EndFor

Spec == Init /\ [][Next]_vars

-----------------------------------------------------------------------------
(* The scenario of one square on a 4x4 grid. *)

\* The corners (0.5,0.5)-(2.5,0.5)-(2.5,2.5)-(0.5,2.5), in half spacings.
Square == Rect(<<1, 1>>, <<5, 5>>)

\* Grid centres at the integer coordinates (0..3, 0..3), centered=True and
\* the default dx.
Init8 ==
    /\ x = RegularX(<<4, 4>>)
    /\ y = RegularY(<<4, 4>>)
    /\ dx = Inf
    /\ centered = TRUE
    /\ mask = None
    /\ tree = None
    /\ pc = "unbuilt"
    /\ geomType = "none"
    /\ cur = NoRing
    /\ filled = NoFill
    /\ nrings = 0
    /\ err = NoErr
    /\ calls = 0

\* The only feature: the square, a Polygon.
IterSquare ==
    /\ pc = "for"
    /\ nrings = 0
    /\ geomType' = "Polygon"
    /\ GridifyCall(Square)
    /\ UNCHANGED <<x, y, dx, centered, mask, tree, nrings, calls>>

\* The features are exhausted after the square.
EndForSquare ==
    /\ nrings = 1
    /\ EndFor

Next8 ==
    \/ MakeCall
    \/ IterSquare
    \/ UpdateStep
    \/ EndForSquare

Spec8 == Init8 /\ [][Next8]_vars

-----------------------------------------------------------------------------
(* Mask._update_mask on its own: called with any fill (x, y) and any vertex *)
(* coordinates (coords) of the grid, on a mask that holds earlier counts.   *)

\* Sequences of at most two cells.
CoordSeqs(shape) == UNION {[1 .. k -> CellsOf(shape)] : k \in 0 .. 2}

InitU ==
    /\ \E sh \in Shapes :
          /\ x = RegularX(sh)
          /\ y = RegularY(sh)
          /\ mask \in {MarkCells(Zeros(sh), S) : S \in SUBSET CellsOf(sh)}
          /\ filled \in {[cells |-> S, coords |-> q] :
                            S \in SUBSET CellsOf(sh), q \in CoordSeqs(sh)}
    /\ dx = Inf
    /\ centered = TRUE
    /\ tree = MakeTree(x, y, centered).points
    /\ pc = "update"
    /\ geomType \in {"Polygon", "MultiPolygon"}
    /\ cur = NoRing
    /\ nrings = 0
    /\ err = NoErr
    /\ calls = 1

NextU == UpdateStep

SpecU == InitU /\ [][NextU]_vars

-----------------------------------------------------------------------------
(* Properties. *)

MaskCells == CellsOf(Shape(mask))

\* C1, as claimed: every make() call after the first raises the
\* already-built error and leaves the mask as it was.
C1_EveryLaterCallAlreadyBuilt ==
    [][(calls' = calls + 1 /\ calls >= 1)
          => (err' = TreeExistsError /\ mask' = mask)]_vars

\* C1, amended: once a make() call has built the tree, every later call
\* raises the already-built error and changes neither the mask nor the tree
\* nor the state of the build; after a call that failed before the tree was
\* built, a later call fails in the same way again and there is still no mask.
C1_LaterCallAfterTreeBuilt ==
    [][(calls' = calls + 1 /\ calls >= 1)
          => IF tree # None
             THEN err' = TreeExistsError /\ mask' = mask /\ tree' = tree /\ pc' = pc
             ELSE err' = err /\ err' # NoErr /\ err' # TreeExistsError
                  /\ mask' = None /\ tree' = None]_vars

\* A second call rejected after a build that filled at least one cell.
C1_Witness ==
    /\ calls >= 2
    /\ err = TreeExistsError
    /\ pc = "built"
    /\ \E cell \in MaskCells : At(mask, cell[1], cell[2]) = 1

\* C2, as claimed: a geometry of another kind makes make() fail with the
\* unsupported-geometry error that carries the name of the kind.
C2_UnsupportedGeometryNamed ==
    (pc = "failed" /\ geomType \in OtherKinds /\ calls = 1)
        => err = Exc("NotImplementedError", geomType)

\* C3, as claimed: once make() has raised, the mask attribute holds no
\* accumulated counts.
C3_NoPartialMask ==
    (pc = "failed" \/ (pc = "unbuilt" /\ err # NoErr))
        => (mask = None \/ \A cell \in MaskCells : At(mask, cell[1], cell[2]) = 0)

\* C3, amended: when make() raises in the loop over the geometries, the mask
\* attribute stays set to the array of the grid's shape with the counts of
\* the rings processed before the error, not clamped: each value is between
\* 0 and the number of those rings, and some value is positive if there was
\* such a ring.  When it raises before the loop there is no mask.
C3_PartialMaskKept ==
    /\ pc = "failed" =>
          /\ mask # None
          /\ Shape(mask) = Shape(x)
          /\ \A cell \in MaskCells : At(mask, cell[1], cell[2]) \in 0 .. nrings
          /\ nrings >= 1 => \E cell \in MaskCells : At(mask, cell[1], cell[2]) >= 1
    /\ (pc = "unbuilt" /\ err # NoErr) => mask = None

\* make() has raised and left a count of 2 in the mask.
C3_Witness ==
    /\ pc = "failed"
    /\ \E cell \in MaskCells : At(mask, cell[1], cell[2]) = 2

\* C4: every value of the mask is a non-negative integer while make()
\* accumulates, and is 0 or 1 once make() has returned.
C4_BinaryAfterMake ==
    /\ mask # None => \A cell \in MaskCells : At(mask, cell[1], cell[2]) \in Nat
    /\ pc = "built" => \A cell \in MaskCells : At(mask, cell[1], cell[2]) \in {0, 1}

\* make() has returned after two rings, with filled and unfilled cells.
C4_Witness ==
    /\ pc = "built"
    /\ nrings >= 2
    /\ \E cell \in MaskCells : At(mask, cell[1], cell[2]) = 1
    /\ \E cell \in MaskCells : At(mask, cell[1], cell[2]) = 0

\* C5, as claimed: x and y arrays of different shapes make make() fail, and
\* no tree and no mask are built.
C5_ShapeMismatchFails ==
    (Shape(x) # Shape(y) /\ calls >= 1)
        => (err # NoErr /\ tree = None /\ mask = None)

\* Every vertex of the ring is farther than dx from every point of the tree.
AllBeyond(ring) ==
    /\ dx # Inf
    /\ \A i \in 1 .. Len(ring) : \A j \in 1 .. Len(tree) :
          Dist2(ring[i], tree[j]) > dx * dx

\* C6, as claimed: a ring all of whose vertices are beyond dx is no error.
C6_OutOfRangeNoError ==
    (tree # None /\ cur # NoRing /\ AllBeyond(cur)) => (pc # "failed" /\ err = NoErr)

\* C7: a cell that is 1 in the mask finalized after the rings processed so
\* far is 1 in the mask finalized after one more ring, and a cell covered by
\* one or several rings is exactly 1 when make() returns.
C7_Monotone ==
    [][/\ pc = "update" =>
             \A cell \in MaskCells :
                 At(Finalize(mask), cell[1], cell[2]) = 1
                     => At(Finalize(mask'), cell[1], cell[2]) = 1
       /\ (pc = "for" /\ pc' = "built") =>
             \A cell \in MaskCells :
                 At(mask, cell[1], cell[2]) >= 1 => At(mask', cell[1], cell[2]) = 1]_vars

\* Two rings have covered the same cell.
C7_Witness ==
    /\ pc \in {"for", "parts"}
    /\ \E cell \in MaskCells : At(mask, cell[1], cell[2]) = 2

\* The mask that is 1 on rows 1-2, cols 1-2 of a 4x4 grid.
BlockCells == {1, 2} \X {1, 2}

BlockMask == MarkCells(Zeros(<<4, 4>>), BlockCells)

\* The corners mapped to the nodes inside the square.
InwardCoords == <<<<1, 1>>, <<1, 2>>, <<2, 2>>, <<2, 1>>, <<1, 1>>>>

\* C8, as claimed: the mask is 1 exactly on the 2x2 block, whichever of the
\* equidistant nodes each corner is mapped to.
C8_ExactlyTheBlock == pc = "built" => mask = BlockMask

\* C8, amended: whichever of the equidistant nodes each corner is mapped to,
\* the mask is 1 on the 2x2 block; it is 1 exactly there, and 0 elsewhere,
\* when each corner is mapped to the node inside the square.
C8_BlockCovered ==
    /\ pc = "built" =>
          \A cell \in BlockCells : At(mask, cell[1], cell[2]) = 1
    /\ (pc = "update" /\ filled.coords = InwardCoords) =>
          Finalize(UpdateMask(mask, filled.cells, filled.coords)) = BlockMask

\* make() has returned the mask of the 2x2 block.
C8_Witness == pc = "built" /\ mask = BlockMask

\* The centres computed beforehand from corner coordinates: each corner plus
\* half the spacing of the grid.
HalfSpacingX(gx) == (gx[1][2] - gx[1][1]) \div 2

HalfSpacingY(gy) == (gy[2][1] - gy[1][1]) \div 2

CentersX(gx) == [r \in 1 .. Rows(gx) |-> [c \in 1 .. Cols(gx) |-> gx[r][c] + HalfSpacingX(gx)]]

CentersY(gy) == [r \in 1 .. Rows(gy) |-> [c \in 1 .. Cols(gy) |-> gy[r][c] + HalfSpacingY(gy)]]

\* C9: built with centered=False on corner coordinates, the tree holds the
\* points it holds when built with centered=True on the centres computed
\* beforehand, the mask has the same shape, and every ring is gridded to
\* the same cells and coordinates.
C9_CenteringEquivalence ==
    (tree # None /\ ~centered) =>
        LET centres == MakeTree(CentersX(x), CentersY(y), TRUE)
        IN  /\ centres.err = NoErr
            /\ tree = centres.points
            /\ Shape(mask) = Shape(Zeros(Shape(CentersX(x))))
            /\ (pc = "for" /\ nrings = 0) =>
                  \A ring \in Rings :
                      Gridify(tree, Shape(x), dx, ring)
                        = Gridify(centres.points, Shape(CentersX(x)), dx, ring)

\* make() has returned a mask with a filled cell from corner coordinates.
C9_Witness ==
    /\ ~centered
    /\ pc = "built"
    /\ nrings >= 1
    /\ \E cell \in MaskCells : At(mask, cell[1], cell[2]) = 1

====
